---------------------------- MODULE Spec2Model ----------------------------
(***************************************************************************)
(* Fraud detection system: the synchronous intake-and-scoring handler of   *)
(* the Go API (processTransactionHandler) and the Kafka feedback processor *)
(* (go_processor/main.go), over Postgres, Redis and Kafka.                 *)
(*                                                                         *)
(* Number encoding.  Money amounts are whole units.  User risk and         *)
(* merchant risk are in hundredths (DECIMAL(3,2)): 50 is 0.50.  Fraud      *)
(* scores and confidences are in ten-thousandths (DECIMAL(5,4)): 7000 is   *)
(* 0.7000.  All inputs drawn below are exact at these scales, so the       *)
(* float64 sums of the code and the fixed-point sums agree on every        *)
(* comparison the code makes.                                              *)
(***************************************************************************)
EXTENDS Integers, Sequences, FiniteSets, TLC

(***************************************************************************)
(* Bounds of the model.                                                    *)
(***************************************************************************)
MaxClock == 1
MaxRequests == 2
MaxEvents == 1
MaxDeliveries == 2
TicksPerSec == 2
MaxBatch == 2

(***************************************************************************)
(* Program constants.                                                      *)
(***************************************************************************)
DefaultRisk == 50
FraudThreshold == 7000
HighAmount == 5000
RatioLimit == 5
DefaultBase == 100
BaseScore == 3000
AmountBonus == 3000
RatioBonus == 2000
MerchantWeight == 20
UserWeight == 10
MaxScore == 10000
PlaceholderConfidence == 8000
HighMerchantRisk == 80
HighUserRisk == 70
RecentKeep == 10
MaxRisk == 100
FraudAdj == 10
HighScoreAdj == 5
HighScoreLimit == 8000
AmountAdj == 3
CleanAdj == 2
CleanLimit == 3000
CriticalLimit == 9000
ShortIdLen == 8
BatchScore == 5000
BatchConfidence == 8000
DefaultLimit == 100

\* Identifiers below ClockStart belong to transactions of earlier runs.
ClockStart == RecentKeep + 1

Handlers == {"h1", "h2"}
Consumers == {"c1", "c2"}

(***************************************************************************)
(* Rows of users inserted by the DDL's sample data.                        *)
(***************************************************************************)
SeedUsers == [USER001 |-> 30, USER002 |-> 70, USER003 |-> 50]

(***************************************************************************)
(* Request bodies a client may post (TransactionRequest).  The handler     *)
(* decodes JSON and validates nothing, so a merchant risk outside [0,1]    *)
(* is accepted like any other.                                             *)
(***************************************************************************)
Requests ==
  { [user |-> "USER002", amount |-> 6000, mrisk |-> 90,   device |-> "d1"],
    [user |-> "NEWUSER", amount |-> 50,   mrisk |-> 10,   device |-> "none"],
    [user |-> "NEWUSER", amount |-> 50,   mrisk |-> -200, device |-> "none"] }

(***************************************************************************)
(* Replies the external scorer (pb.FraudDetectionService) may give; the    *)
(* handler takes score, confidence and risk factors from it unchanged.     *)
(***************************************************************************)
GrpcReplies ==
  { [score |-> 9500, conf |-> 9000, rfs |-> {"ml_model"}] }

NoId == 0
NoReq == [user |-> "", amount |-> 0, mrisk |-> 0, device |-> "none"]
NoResp == [status |-> 0]
NoMsg == [txid |-> 0]

VARIABLES
  now,        \* the wall clock (time.Now().UnixNano())
  useGRPC,    \* USE_ML_GRPC of the API process
  resubmits,  \* whether clients resend a request with the identifier they got
  users,      \* table users: user_id -> risk_score
  transactions, \* table transactions: transaction_id -> row
  alerts,     \* table fraud_alerts: row -> number of copies
  features,   \* table feature_store: row -> number of copies
  cache,      \* Redis transaction:<id> -> response blob
  riskCache,  \* Redis user_risk:<user_id> -> value
  recentTx,   \* Redis recent_transaction:<id> keys
  recent,     \* Redis user_recent_transactions:<user_id> -> list
  topic,      \* Kafka fraud-transactions: partition -> sequence of events
  offset,     \* committed offset of each partition's consumer
  alertTopic, \* Kafka fraud-alerts: event -> number of copies
  hpc, hreq, htx, hscore,   \* a request handler's locals
  out,        \* the response most recently written to a client
  nreq,       \* how many requests have been received
  carried,    \* the transaction identifier the last request's body carried
  cpc, cmsg, ccur, calert,                        \* a consumer's locals
  ndeliver,   \* how many messages the broker has delivered
  riskLog,    \* history: user -> the adjustments applied to the stored risk
  riskBase    \* history: user -> the risk the user row was created with

hvars == <<hpc, hreq, htx, hscore, out, nreq, carried>>
cvars == <<cpc, cmsg, ccur, calert>>
store == <<users, transactions, alerts, features>>
redis == <<cache, riskCache, recentTx, recent>>
kafka == <<topic, offset, alertTopic>>
hist == <<riskLog, riskBase>>
env == <<useGRPC, resubmits>>
vars == <<now, env, store, redis, kafka, hvars, cvars, ndeliver, hist>>

Partitions == Consumers

(***************************************************************************)
(* Helpers on functions used as tables and key-value maps.                 *)
(***************************************************************************)
Put(f, k, v) == [x \in DOMAIN f \cup {k} |-> IF x = k THEN v ELSE f[x]]
Del(f, k) == [x \in DOMAIN f \ {k} |-> f[x]]
Empty == [x \in {} |-> 0]

\* A row more in a table without keys (row -> number of copies).
AddRow(table, row) ==
  Put(table, row, IF row \in DOMAIN table THEN table[row] + 1 ELSE 1)

\* The number of rows of a table among the given ones.
RECURSIVE CountRows(_, _)
CountRows(table, rows) ==
  IF rows = {} THEN 0
  ELSE LET r == CHOOSE x \in rows : TRUE
       IN table[r] + CountRows(table, rows \ {r})

RECURSIVE SumAmounts(_, _)
SumAmounts(rows, ids) ==
  IF ids = {} THEN 0
  ELSE LET t == CHOOSE x \in ids : TRUE
       IN rows[t].amount + SumAmounts(rows, ids \ {t})


(***************************************************************************)
(* getUserRiskScore: the stored risk, 0.5 when the user has no row.        *)
(***************************************************************************)
RiskIn(usersTable, userID) ==
  IF userID \in DOMAIN usersTable THEN usersTable[userID] ELSE DefaultRisk

getUserRiskScore(userID) == RiskIn(users, userID)

(***************************************************************************)
(* getAmountToHistoryRatio: amount / base as the fraction <<num, den>>,    *)
(* base the average amount of the user's stored transactions when that is  *)
(* positive, 100 otherwise.                                                *)
(***************************************************************************)
RatioIn(txTable, userID, amount) ==
  LET ids == {t \in DOMAIN txTable : txTable[t].user = userID}
      sum == SumAmounts(txTable, ids)
  IN IF ids # {} /\ sum > 0
     THEN [num |-> amount * Cardinality(ids), den |-> sum]
     ELSE [num |-> amount, den |-> DefaultBase]

getAmountToHistoryRatio(userID, amount) == RatioIn(transactions, userID, amount)

RatioAbove(ratio, k) == ratio.num > k * ratio.den

(***************************************************************************)
(* getFraudScorePlaceholder: the local heuristic.                          *)
(***************************************************************************)
PlaceholderRaw(amount, merchantRisk, userRisk, ratio) ==
  BaseScore
  + (IF amount > HighAmount THEN AmountBonus ELSE 0)
  + MerchantWeight * merchantRisk
  + UserWeight * userRisk
  + (IF RatioAbove(ratio, RatioLimit) THEN RatioBonus ELSE 0)

\* The factors with high_user_risk tested against the merchant's threshold.
PlaceholderFactorsOneLimit(amount, merchantRisk, userRisk, ratio) ==
  (IF amount > HighAmount THEN {"high_amount"} ELSE {})
  \cup (IF merchantRisk > HighMerchantRisk THEN {"high_merchant_risk"} ELSE {})
  \cup (IF userRisk > HighMerchantRisk THEN {"high_user_risk"} ELSE {})
  \cup (IF RatioAbove(ratio, RatioLimit) THEN {"unusual_amount_pattern"} ELSE {})

PlaceholderFactors(amount, merchantRisk, userRisk, ratio) ==
  (IF amount > HighAmount THEN {"high_amount"} ELSE {})
  \cup (IF merchantRisk > HighMerchantRisk THEN {"high_merchant_risk"} ELSE {})
  \cup (IF userRisk > HighUserRisk THEN {"high_user_risk"} ELSE {})
  \cup (IF RatioAbove(ratio, RatioLimit) THEN {"unusual_amount_pattern"} ELSE {})

getFraudScorePlaceholder(amount, merchantRisk, userRisk, ratio) ==
  LET raw == PlaceholderRaw(amount, merchantRisk, userRisk, ratio)
  IN [score |-> IF raw > MaxScore THEN MaxScore ELSE raw,
      conf  |-> PlaceholderConfidence,
      rfs   |-> PlaceholderFactors(amount, merchantRisk, userRisk, ratio)]

IsFraudScore(fraudScore) == fraudScore > FraudThreshold

(***************************************************************************)
(* The response a finished request returns, and the decision event.        *)
(***************************************************************************)
ResponseBody(txID, sc, ms) ==
  [txid |-> txID, isFraud |-> IsFraudScore(sc.score), score |-> sc.score,
   conf |-> sc.conf, rfs |-> sc.rfs, ms |-> ms]

\* The event with the flag left at its zero value.
DecisionEventUnflagged(txID, req, fraudScore) ==
  [txid |-> txID, user |-> req.user, amount |-> req.amount,
   score |-> fraudScore, isFraud |-> FALSE]

DecisionEvent(txID, req, fraudScore) ==
  [txid |-> txID, user |-> req.user, amount |-> req.amount,
   score |-> fraudScore, isFraud |-> IsFraudScore(fraudScore)]

TransactionRow(req, fraudScore) ==
  [user |-> req.user, amount |-> req.amount, mrisk |-> req.mrisk,
   score |-> fraudScore, isFraud |-> IsFraudScore(fraudScore),
   device |-> "none"]

NoScore == [score |-> 0, conf |-> 0, rfs |-> {}]

\* The handler returns: its response is written and its locals are gone.
Reply(h, r) ==
  /\ out' = r
  /\ UNCHANGED <<nreq, carried>>
  /\ hpc' = [hpc EXCEPT ![h] = "idle"]
  /\ hreq' = [hreq EXCEPT ![h] = NoReq]
  /\ htx' = [htx EXCEPT ![h] = 0]
  /\ hscore' = [hscore EXCEPT ![h] = NoScore]

\* A step of the handler that only moves on.
Goto(h, label) ==
  /\ hpc' = [hpc EXCEPT ![h] = label]
  /\ UNCHANGED <<hreq, htx, out, nreq, carried>>

(***************************************************************************)
(* processTransactionHandler, one action per store, cache or broker call.  *)
(***************************************************************************)
\* What a cache hit writes to the client: the cached blob.
ReplayBody(cached) == cached

\* What a request body can carry as its transaction identifier: nothing, or
\* the identifier of a response the client got earlier.  TransactionRequest
\* has no field for it, so Decode drops it.
CarriedIds == IF resubmits THEN {NoId} \cup DOMAIN cache ELSE {NoId}

\* Decode the body, take the identifier from the clock, rdb.Get it.
Receive(h, r) ==
  /\ hpc[h] = "idle"
  /\ nreq < MaxRequests
  /\ nreq' = nreq + 1
  /\ r \in Requests
  /\ carried' \in CarriedIds

\* The key is cached: write the cached blob and return.
Replay(h) ==
  /\ \E r \in Requests : Receive(h, r)
  /\ now \in DOMAIN cache
  /\ out' = [status |-> 200, body |-> ReplayBody(cache[now]), replay |-> TRUE]
  /\ UNCHANGED <<now, env, store, redis, kafka, hpc, hreq, htx, hscore, cvars,
                 ndeliver, hist>>

\* The handler goes from the score straight to the publish.
ScoredThenSent(h, r, sc) ==
  /\ Receive(h, r)
  /\ now \notin DOMAIN cache
  /\ hreq' = [hreq EXCEPT ![h] = r]
  /\ htx' = [htx EXCEPT ![h] = now]
  /\ hscore' = [hscore EXCEPT ![h] = sc]
  /\ hpc' = [hpc EXCEPT ![h] = "send"]
  /\ UNCHANGED <<now, env, store, redis, kafka, out, cvars, ndeliver, hist>>

\* The features of a request: the user's risk and the history ratio.
Scored(h, r, sc) ==
  /\ Receive(h, r)
  /\ now \notin DOMAIN cache
  /\ hreq' = [hreq EXCEPT ![h] = r]
  /\ htx' = [htx EXCEPT ![h] = now]
  /\ hscore' = [hscore EXCEPT ![h] = sc]
  /\ hpc' = [hpc EXCEPT ![h] = "ensure"]
  /\ UNCHANGED <<now, env, store, redis, kafka, out, cvars, ndeliver, hist>>

\* What the local heuristic gives for request r with the features as stored.
LocalScore(r) ==
  getFraudScorePlaceholder(r.amount, r.mrisk, getUserRiskScore(r.user),
                           getAmountToHistoryRatio(r.user, r.amount))

\* No cached response; USE_ML_GRPC is off: the local heuristic scores the
\* request.
ScoreLocal(h) ==
  /\ ~useGRPC
  /\ \E r \in Requests : Scored(h, r, LocalScore(r))

\* The zero values getFraudScoreGRPC returns with its error taken as the score.
ScoreFallbackZero(h) ==
  /\ useGRPC
  /\ \E r \in Requests : Scored(h, r, NoScore)

\* No cached response; getFraudScoreGRPC returned an error (dial, call or the
\* 2 s timeout): the local heuristic scores the request.
ScoreFallback(h) ==
  /\ useGRPC
  /\ \E r \in Requests : Scored(h, r, LocalScore(r))

\* No cached response; getFraudScoreGRPC answered within its timeout.
ScoreGRPC(h) ==
  /\ useGRPC
  /\ \E r \in Requests, g \in GrpcReplies : Scored(h, r, g)

\* The insert of the missing user left out.
EnsureInSkipped(usersTable, userID) == usersTable

\* The insert as an upsert that resets the risk of an existing user.
EnsureInUpsert(usersTable, userID) == Put(usersTable, userID, DefaultRisk)

\* ensureUserExists: INSERT ... ON CONFLICT (user_id) DO NOTHING.
EnsureIn(usersTable, userID) ==
  IF userID \in DOMAIN usersTable THEN usersTable
  ELSE Put(usersTable, userID, DefaultRisk)

ensureUserExists(userID) == EnsureIn(users, userID)

\* A plain INSERT: the row of an existing user makes the statement fail.
EnsureUserPlainInsert(h) ==
  /\ hpc[h] = "ensure"
  /\ IF hreq[h].user \in DOMAIN users
     THEN /\ Reply(h, [status |-> 500, err |-> "prepare_user"])
          /\ UNCHANGED <<users, hist>>
     ELSE /\ users' = Put(users, hreq[h].user, DefaultRisk)
          /\ riskBase' = Put(riskBase, hreq[h].user, DefaultRisk)
          /\ riskLog' = Put(riskLog, hreq[h].user, Empty)
          /\ Goto(h, "store")
          /\ UNCHANGED hscore
  /\ UNCHANGED <<now, env, transactions, alerts, features, redis, kafka, cvars, ndeliver>>

EnsureUser(h) ==
  /\ hpc[h] = "ensure"
  /\ users' = ensureUserExists(hreq[h].user)
  /\ riskBase' = IF hreq[h].user \in DOMAIN users THEN riskBase
                 ELSE Put(riskBase, hreq[h].user, DefaultRisk)
  /\ riskLog' = IF hreq[h].user \in DOMAIN users THEN riskLog
                ELSE Put(riskLog, hreq[h].user, Empty)
  /\ Goto(h, "store")
  /\ UNCHANGED <<now, env, transactions, alerts, features, redis, kafka, hscore, cvars, ndeliver>>

\* The statement failed: "Failed to prepare user", 500.
EnsureUserFail(h) ==
  /\ hpc[h] = "ensure"
  /\ Reply(h, [status |-> 500, err |-> "prepare_user"])
  /\ UNCHANGED <<now, env, store, redis, kafka, cvars, ndeliver, hist>>

\* The table without its UNIQUE constraint on transaction_id.
InsertAllowedNoUnique(txID, userID) == userID \in DOMAIN users

\* What the transactions table accepts: transaction_id UNIQUE, user_id
\* REFERENCES users(user_id).
InsertAllowed(txID, userID) ==
  /\ txID \notin DOMAIN transactions
  /\ userID \in DOMAIN users

\* storeTransaction: INSERT INTO transactions.
StoreTransaction(h) ==
  /\ hpc[h] = "store"
  /\ InsertAllowed(htx[h], hreq[h].user)
  /\ transactions' = Put(transactions, htx[h], TransactionRow(hreq[h], hscore[h].score))
  /\ Goto(h, "send")
  /\ UNCHANGED <<now, env, users, alerts, features, redis, kafka, hscore, cvars, ndeliver, hist>>

\* The failed INSERT logged and the handler going on to publish.
StoreTransactionFailSwallowed(h) ==
  /\ hpc[h] = "store"
  /\ Goto(h, "send")
  /\ UNCHANGED <<now, env, store, redis, kafka, hscore, cvars, ndeliver, hist>>

\* The INSERT was refused by a constraint, or failed: 500 with the error text.
StoreTransactionFail(h) ==
  /\ hpc[h] = "store"
  /\ \/ /\ htx[h] \in DOMAIN transactions
        /\ Reply(h, [status |-> 500, err |-> "duplicate_key"])
     \/ /\ hreq[h].user \notin DOMAIN users
        /\ Reply(h, [status |-> 500, err |-> "foreign_key"])
     \/ /\ InsertAllowed(htx[h], hreq[h].user)
        /\ Reply(h, [status |-> 500, err |-> "storage"])
  /\ UNCHANGED <<now, env, store, redis, kafka, cvars, ndeliver, hist>>

\* sendToKafka: the writer has no key and a LeastBytes balancer, so the event
\* goes to whichever partition the balancer picks.
SendToKafka(h) ==
  /\ hpc[h] = "send"
  /\ \E p \in Partitions :
       topic' = [topic EXCEPT ![p] =
                   Append(@, DecisionEvent(htx[h], hreq[h], hscore[h].score))]
  /\ Goto(h, "reply")
  /\ UNCHANGED <<now, env, store, redis, offset, alertTopic, hscore, cvars, ndeliver, hist>>

\* The failed publish returned to the caller as an error.
SendToKafkaFailSurfaced(h) ==
  /\ hpc[h] = "send"
  /\ Reply(h, [status |-> 500, err |-> "publish"])
  /\ UNCHANGED <<now, env, store, redis, kafka, cvars, ndeliver, hist>>

\* WriteMessages failed; the error is dropped.
SendToKafkaFail(h) ==
  /\ hpc[h] = "send"
  /\ Goto(h, "reply")
  /\ UNCHANGED <<now, env, store, redis, kafka, hscore, cvars,
                 ndeliver, hist>>

\* The cached blob is built a second time, without the processing time.
RespondRebuilt(h) ==
  /\ hpc[h] = "reply"
  /\ cache' = Put(cache, htx[h], ResponseBody(htx[h], hscore[h], 0))
  /\ Reply(h, [status |-> 200,
               body |-> ResponseBody(htx[h], hscore[h], now - htx[h]),
               replay |-> FALSE])
  /\ UNCHANGED <<now, env, store, riskCache, recentTx, recent, kafka, cvars,
                 ndeliver, hist>>

\* Marshal the response with the elapsed time, rdb.Set it for 5 minutes,
\* write it.
Respond(h) ==
  /\ hpc[h] = "reply"
  /\ LET b == ResponseBody(htx[h], hscore[h], now - htx[h])
     IN /\ cache' = Put(cache, htx[h], b)
        /\ Reply(h, [status |-> 200, body |-> b, replay |-> FALSE])
  /\ UNCHANGED <<now, env, store, riskCache, recentTx, recent, kafka, cvars,
                 ndeliver, hist>>

(***************************************************************************)
(* The environment: the clock advances, Redis keys reach their TTL.        *)
(***************************************************************************)
Tick ==
  /\ now < ClockStart + MaxClock
  /\ now' = now + 1
  /\ UNCHANGED <<env, store, redis, kafka, hvars, cvars, ndeliver, hist>>

ExpireResponse ==
  /\ \E t \in DOMAIN cache : cache' = Del(cache, t)
  /\ UNCHANGED <<now, env, store, riskCache, recentTx, recent, kafka, hvars, cvars,
                 ndeliver, hist>>

ExpireRecent ==
  /\ \E u \in DOMAIN recent : recent' = Del(recent, u)
  /\ UNCHANGED <<now, env, store, cache, riskCache, recentTx, kafka, hvars, cvars,
                 ndeliver, hist>>

(***************************************************************************)
(* The feedback processor (go_processor/main.go).  Each consumer of the    *)
(* group reads one partition; ReadMessage of a group reader commits the    *)
(* offset as it returns the message.                                       *)
(***************************************************************************)
\* updateUserRiskScore, the adjustment an event carries.
Adjustment(tx) ==
  (IF tx.isFraud THEN FraudAdj ELSE 0)
  + (IF tx.score > HighScoreLimit THEN HighScoreAdj ELSE 0)
  + (IF tx.amount > HighAmount THEN AmountAdj ELSE 0)
  - (IF ~tx.isFraud /\ tx.score < CleanLimit THEN CleanAdj ELSE 0)

\* The clamp without its upper bound.
ClampRiskLowerOnly(r) == IF r < 0 THEN 0 ELSE r

ClampRisk(r) == IF r < 0 THEN 0 ELSE IF r > MaxRisk THEN MaxRisk ELSE r

NewRisk(current, tx) == ClampRisk(current + Adjustment(tx))

\* A step of process that only moves on.
CGoto(c, label) ==
  /\ cpc' = [cpc EXCEPT ![c] = label]
  /\ UNCHANGED <<cmsg, ccur>>

\* process returns and the loop reads again: the message's locals are gone.
CDone(c) ==
  /\ cpc' = [cpc EXCEPT ![c] = "idle"]
  /\ cmsg' = [cmsg EXCEPT ![c] = NoMsg]
  /\ ccur' = [ccur EXCEPT ![c] = 0]
  /\ calert' = [calert EXCEPT ![c] = <<>>]

\* A payload json.Unmarshal rejects: it carries none of the event's fields.
Poison == [raw |-> "not json"]

\* json.Unmarshal(m.Value, &tx) returns no error.
Decodable(m) == "txid" \in DOMAIN m

\* reader.ReadMessage, then updateUserRiskScore's SELECT risk_score: the
\* row's value, or the 0.5 current starts with.
ReadMessage(c) ==
  /\ cpc[c] = "idle"
  /\ offset[c] < Len(topic[c])
  /\ ndeliver < MaxDeliveries
  /\ ndeliver' = ndeliver + 1
  /\ LET m == topic[c][offset[c] + 1]
     IN /\ Decodable(m)
        /\ cmsg' = [cmsg EXCEPT ![c] = m]
        /\ ccur' = [ccur EXCEPT ![c] = getUserRiskScore(m.user)]
  /\ offset' = [offset EXCEPT ![c] = @ + 1]
  /\ cpc' = [cpc EXCEPT ![c] = "updWrite"]
  /\ UNCHANGED <<now, env, store, redis, topic, alertTopic, hvars, calert, hist>>

\* UPDATE users SET risk_score = newRisk WHERE user_id = ...
UpdateRiskWrite(c) ==
  /\ cpc[c] = "updWrite"
  /\ LET u == cmsg[c].user
     IN IF u \in DOMAIN users
        THEN /\ users' = [users EXCEPT ![u] = NewRisk(ccur[c], cmsg[c])]
             /\ riskLog' = [riskLog EXCEPT ![u] =
                  AddRow(@, [txid |-> cmsg[c].txid, adj |-> Adjustment(cmsg[c])])]
        ELSE UNCHANGED <<users, riskLog>>
  /\ CGoto(c, "updCache")
  /\ UNCHANGED <<now, env, transactions, alerts, features, redis, kafka, hvars,
                 calert, ndeliver, riskBase>>

\* The UPDATE failed; the error is dropped.
UpdateRiskWriteFail(c) ==
  /\ cpc[c] = "updWrite"
  /\ CGoto(c, "updCache")
  /\ UNCHANGED <<now, env, store, redis, kafka, hvars, calert, ndeliver, hist>>

\* rdb.Set user_risk:<user_id> for an hour.
UpdateRiskCache(c) ==
  /\ cpc[c] = "updCache"
  /\ riskCache' = Put(riskCache, cmsg[c].user, NewRisk(ccur[c], cmsg[c]))
  /\ CGoto(c, "meta")
  /\ UNCHANGED <<now, env, store, cache, recentTx, recent, kafka, hvars, calert,
                 ndeliver, hist>>

\* tx.DeviceID of a decoded event: the pointer is nil ("none") when the
\* payload has no device_id, as in the event the API publishes.
EventDevice(m) == IF "device" \in DOMAIN m THEN m.device ELSE "none"

\* storeMetadata: UPDATE transactions SET device_id = $1, ip_address = $2
\* with the event's two pointers, NULL when nil.  (The IP address goes the
\* way of the device identifier.)
StoreMetadata(c) ==
  /\ cpc[c] = "meta"
  /\ transactions' =
       IF cmsg[c].txid \in DOMAIN transactions
       THEN [transactions EXCEPT ![cmsg[c].txid].device = EventDevice(cmsg[c])]
       ELSE transactions
  /\ CGoto(c, "feature")
  /\ UNCHANGED <<now, env, users, alerts, features, redis, kafka, hvars, calert,
                 ndeliver, hist>>

\* Only the transaction_amount row is inserted.
UpdateFeatureStoreOneRow(c) ==
  /\ cpc[c] = "feature"
  /\ features' =
       AddRow(features,
         [user |-> cmsg[c].user, name |-> "transaction_amount", value |-> cmsg[c].amount])
  /\ CGoto(c, "lpush")
  /\ UNCHANGED <<now, env, users, transactions, alerts, redis, kafka, hvars,
                 calert, ndeliver, hist>>

\* updateFeatureStore: two INSERTs.
UpdateFeatureStore(c) ==
  /\ cpc[c] = "feature"
  /\ features' =
       AddRow(AddRow(features,
         [user |-> cmsg[c].user, name |-> "transaction_amount", value |-> cmsg[c].amount]),
         [user |-> cmsg[c].user, name |-> "fraud_score", value |-> cmsg[c].score])
  /\ CGoto(c, "lpush")
  /\ UNCHANGED <<now, env, users, transactions, alerts, redis, kafka, hvars,
                 calert, ndeliver, hist>>

RecentOf(u) == IF u \in DOMAIN recent THEN recent[u] ELSE <<>>

LPush(list, v) == <<v>> \o list

\* LTRIM key 0 stop: the elements at indexes 0..stop.
LTrim(list, stop) ==
  SubSeq(list, 1, IF Len(list) < stop + 1 THEN Len(list) ELSE stop + 1)

\* cacheRecent: rdb.Set recent_transaction:<id>, then LPush on the user's list.
CacheRecentPush(c) ==
  /\ cpc[c] = "lpush"
  /\ recentTx' = recentTx \cup {cmsg[c].txid}
  /\ recent' = Put(recent, cmsg[c].user, LPush(RecentOf(cmsg[c].user), cmsg[c].txid))
  /\ CGoto(c, "ltrim")
  /\ UNCHANGED <<now, env, store, cache, riskCache, kafka, hvars, calert,
                 ndeliver, hist>>

\* LTrim 0 9, then Expire refreshes the TTL; process goes on to the alert
\* when the event is flagged.
CacheRecentTrim(c) ==
  /\ cpc[c] = "ltrim"
  /\ recent' = IF cmsg[c].user \in DOMAIN recent
               THEN [recent EXCEPT ![cmsg[c].user] = LTrim(@, RecentKeep - 1)]
               ELSE recent
  /\ IF cmsg[c].isFraud
     THEN CGoto(c, "alert") /\ UNCHANGED calert
     ELSE CDone(c)
  /\ UNCHANGED <<now, env, store, cache, riskCache, recentTx, kafka, hvars,
                 ndeliver, hist>>

Severity(fraudScore) ==
  IF fraudScore > CriticalLimit THEN "CRITICAL"
  ELSE IF fraudScore > HighScoreLimit THEN "HIGH" ELSE "MEDIUM"

\* shortID: the first 8 characters of the decimal identifier.
RECURSIVE shortID(_)
shortID(id) == IF id < 10 ^ ShortIdLen THEN id ELSE shortID(id \div 10)

\* time.Now().Unix(): the clock in whole seconds.
UnixSeconds(t) == t \div TicksPerSec

AlertID(t, txID) == <<UnixSeconds(t), shortID(txID)>>

AlertRow(alertID, tx) ==
  [alert_id |-> alertID, txid |-> tx.txid, type |-> "FRAUD_DETECTED",
   severity |-> Severity(tx.score), conf |-> tx.score, status |-> "OPEN"]

AlertEvent(alertID, tx) ==
  [alert_id |-> alertID, txid |-> tx.txid, user |-> tx.user,
   type |-> "FRAUD_DETECTED", severity |-> Severity(tx.score), score |-> tx.score]

\* generateAlert: INSERT INTO fraud_alerts; the table has no unique column
\* besides its serial id.
GenerateAlert(c) ==
  /\ cpc[c] = "alert"
  /\ calert' = [calert EXCEPT ![c] = AlertID(now, cmsg[c].txid)]
  /\ alerts' = AddRow(alerts, AlertRow(AlertID(now, cmsg[c].txid), cmsg[c]))
  /\ CGoto(c, "alertPub")
  /\ UNCHANGED <<now, env, users, transactions, features, redis, kafka, hvars,
                 ndeliver, hist>>

\* The INSERT failed; the error is dropped and the alert event is still sent.
GenerateAlertFail(c) ==
  /\ cpc[c] = "alert"
  /\ calert' = [calert EXCEPT ![c] = AlertID(now, cmsg[c].txid)]
  /\ CGoto(c, "alertPub")
  /\ UNCHANGED <<now, env, store, redis, kafka, hvars, ndeliver, hist>>

\* alertWriter.WriteMessages, its error dropped.
PublishAlert(c) ==
  /\ cpc[c] = "alertPub"
  /\ \/ alertTopic' = AddRow(alertTopic, AlertEvent(calert[c], cmsg[c]))
     \/ UNCHANGED alertTopic
  /\ CDone(c)
  /\ UNCHANGED <<now, env, store, redis, topic, offset, hvars, ndeliver, hist>>

\* The processor process dies while handling a message and is restarted; the
\* offset was committed when the message was read.
Crash(c) ==
  /\ cpc[c] # "idle"
  /\ CDone(c)
  /\ UNCHANGED <<now, env, store, redis, kafka, hvars, ndeliver, hist>>

\* At-least-once delivery: the broker hands a partition's last message to
\* its consumer again.
Redeliver(c) ==
  /\ cpc[c] = "idle"
  /\ ndeliver < MaxDeliveries
  /\ offset[c] > 0
  /\ offset' = [offset EXCEPT ![c] = @ - 1]
  /\ UNCHANGED <<now, env, store, redis, topic, alertTopic, hvars, cvars, ndeliver,
                 hist>>

(***************************************************************************)
(* States of the stores, the caches and the broker, as records: what the   *)
(* API leaves after serving a request, and what a processor leaves after   *)
(* handling an event, computed with the operators above.                   *)
(***************************************************************************)
FreshWorld ==
  [users |-> SeedUsers, transactions |-> Empty,
   topic |-> [p \in Partitions |-> <<>>], offset |-> [p \in Partitions |-> 0],
   features |-> Empty, riskCache |-> Empty, recentTx |-> {}, recent |-> Empty,
   riskLog |-> [u \in DOMAIN SeedUsers |-> Empty], riskBase |-> SeedUsers,
   out |-> NoResp]

\* processTransactionHandler run alone at clock t on request r, scored by the
\* local heuristic, its event written to partition route (or lost).
ServeOne(w, t, r, route) ==
  LET sc == getFraudScorePlaceholder(r.amount, r.mrisk, RiskIn(w.users, r.user),
                                     RatioIn(w.transactions, r.user, r.amount))
      known == r.user \in DOMAIN w.users
  IN [w EXCEPT
        !.users = EnsureIn(w.users, r.user),
        !.riskBase = IF known THEN @ ELSE Put(@, r.user, DefaultRisk),
        !.riskLog = IF known THEN @ ELSE Put(@, r.user, Empty),
        !.transactions = Put(@, t, TransactionRow(r, sc.score)),
        !.topic = IF route \in Partitions
                  THEN [@ EXCEPT ![route] = Append(@, DecisionEvent(t, r, sc.score))]
                  ELSE @,
        !.out = [status |-> 200, body |-> ResponseBody(t, sc, 0), replay |-> FALSE]]

\* The requests reqs served one after the other, at clocks first, first + 1, ...
RECURSIVE ServeAll(_, _, _, _)
ServeAll(w, first, reqs, routes) ==
  IF reqs = <<>> THEN w
  ELSE ServeAll(ServeOne(w, first, Head(reqs), Head(routes)),
                first + 1, Tail(reqs), Tail(routes))

\* process run alone by consumer c on the next message of its partition,
\* an event that is not flagged.
ProcessOne(w, c) ==
  LET m == w.topic[c][w.offset[c] + 1]
      risk == NewRisk(RiskIn(w.users, m.user), m)
  IN [w EXCEPT
        !.offset = [@ EXCEPT ![c] = @ + 1],
        !.users = [@ EXCEPT ![m.user] = risk],
        !.riskLog = [@ EXCEPT ![m.user] =
                       AddRow(@, [txid |-> m.txid, adj |-> Adjustment(m)])],
        !.riskCache = Put(@, m.user, risk),
        !.features = AddRow(AddRow(@,
           [user |-> m.user, name |-> "transaction_amount", value |-> m.amount]),
           [user |-> m.user, name |-> "fraud_score", value |-> m.score]),
        !.recentTx = @ \cup {m.txid},
        !.recent = Put(@, m.user,
           LTrim(LPush(IF m.user \in DOMAIN @ THEN @[m.user] ELSE <<>>, m.txid),
                 RecentKeep - 1))]

\* A user of earlier runs: k small payments, identifiers 1..k, each served
\* and then processed by consumer c1.
PastRequest == [user |-> "NEWUSER", amount |-> 50, mrisk |-> 10, device |-> "none"]

RECURSIVE Past(_)
Past(k) ==
  IF k = 0 THEN FreshWorld
  ELSE ProcessOne(ServeOne(Past(k - 1), k, PastRequest, "c1"), "c1")

\* The state with the stores, caches and broker as in w, the clock at t,
\* n requests received, and no request or message in progress.
Idle(w, t, n) ==
  /\ now = t
  /\ users = w.users
  /\ transactions = w.transactions
  /\ alerts = Empty
  /\ features = w.features
  /\ cache = Empty
  /\ riskCache = w.riskCache
  /\ recentTx = w.recentTx
  /\ recent = w.recent
  /\ topic = w.topic
  /\ offset = w.offset
  /\ alertTopic = Empty
  /\ hpc = [h \in Handlers |-> "idle"]
  /\ hreq = [h \in Handlers |-> NoReq]
  /\ htx = [h \in Handlers |-> 0]
  /\ hscore = [h \in Handlers |-> NoScore]
  /\ out = w.out
  /\ nreq = n
  /\ carried = NoId
  /\ cpc = [c \in Consumers |-> "idle"]
  /\ cmsg = [c \in Consumers |-> NoMsg]
  /\ ccur = [c \in Consumers |-> 0]
  /\ calert = [c \in Consumers |-> <<>>]
  /\ ndeliver = 0
  /\ riskLog = w.riskLog
  /\ riskBase = w.riskBase

(***************************************************************************)
(* The system.                                                             *)
(***************************************************************************)
\* After construction: the seeded tables, empty caches and topics.
Init ==
  /\ useGRPC \in BOOLEAN
  /\ resubmits \in BOOLEAN
  /\ Idle(FreshWorld, ClockStart, 0)

\* A step of the request handler h.
Intake(h) ==
  \/ Replay(h)
  \/ ScoreLocal(h)
  \/ ScoreGRPC(h)
  \/ ScoreFallback(h)
  \/ EnsureUser(h)
  \/ EnsureUserFail(h)
  \/ StoreTransaction(h)
  \/ StoreTransactionFail(h)
  \/ SendToKafka(h)
  \/ SendToKafkaFail(h)
  \/ Respond(h)

\* A step of the processor instance c, or of the broker towards it.
Feedback(c) ==
  \/ ReadMessage(c)
  \/ UpdateRiskWrite(c)
  \/ UpdateRiskWriteFail(c)
  \/ UpdateRiskCache(c)
  \/ StoreMetadata(c)
  \/ UpdateFeatureStore(c)
  \/ CacheRecentPush(c)
  \/ CacheRecentTrim(c)
  \/ GenerateAlert(c)
  \/ GenerateAlertFail(c)
  \/ PublishAlert(c)
  \/ Crash(c)
  \/ Redeliver(c)

Env == Tick \/ ExpireResponse \/ ExpireRecent

\* The whole system, one request and one processor instance at a time.
Next ==
  \/ Intake("h1")
  \/ Feedback("c1")
  \/ Env

Spec == Init /\ [][Next]_vars

\* The API alone, its requests served concurrently.
NextIntake ==
  \/ \E h \in Handlers : Intake(h)
  \/ Tick
  \/ ExpireResponse

SpecIntake == Init /\ [][NextIntake]_vars

\* The API with USE_ML_GRPC off and clients that send no identifier.
InitLocal ==
  /\ useGRPC = FALSE
  /\ resubmits = FALSE
  /\ Idle(FreshWorld, ClockStart, 0)

IntakeLocal(h) ==
  \/ Replay(h)
  \/ ScoreLocal(h)
  \/ EnsureUser(h)
  \/ EnsureUserFail(h)
  \/ StoreTransaction(h)
  \/ StoreTransactionFail(h)
  \/ SendToKafka(h)
  \/ SendToKafkaFail(h)
  \/ Respond(h)

NextLocal ==
  \/ \E h \in Handlers : IntakeLocal(h)
  \/ Tick
  \/ ExpireResponse

SpecLocal == InitLocal /\ [][NextLocal]_vars

(***************************************************************************)
(* batchProcessHandler beside the single submit, one handler.              *)
(***************************************************************************)
\* The bodies a batch request can carry: 1 .. MaxBatch transaction requests.
Batches == UNION { [1 .. n -> Requests] : n \in 1 .. MaxBatch }

\* The response the loop appends for an item, whatever the item is.
BatchResult(t) ==
  [txid |-> t, isFraud |-> FALSE, score |-> BatchScore,
   conf |-> BatchConfidence, rfs |-> {"batch_processing"}, ms |-> 0]

\* Decode the body into a BatchTransactionRequest.
BatchReceive(h) ==
  /\ hpc[h] = "idle"
  /\ nreq < MaxRequests
  /\ nreq' = nreq + 1
  /\ \E items \in Batches : hreq' = [hreq EXCEPT ![h] = [batch |-> items]]
  /\ hpc' = [hpc EXCEPT ![h] = "batch"]
  /\ UNCHANGED <<now, env, store, redis, kafka, htx, hscore, out, carried, cvars,
                 ndeliver, hist>>

\* for range req.Transactions: append a placeholder response; writeJSON.
\* No store, cache or broker call is made.
BatchRespond(h) ==
  /\ hpc[h] = "batch"
  /\ Reply(h, [status |-> 200,
               body |-> [results |-> [i \in 1 .. Len(hreq[h].batch) |->
                                        BatchResult(now)]],
               replay |-> FALSE])
  /\ UNCHANGED <<now, env, store, redis, kafka, cvars, ndeliver, hist>>

NextBatch ==
  \/ IntakeLocal("h1")
  \/ BatchReceive("h1")
  \/ BatchRespond("h1")
  \/ Tick
  \/ ExpireResponse

SpecBatch == InitLocal /\ [][NextBatch]_vars

(***************************************************************************)
(* The read endpoints.  A handler decodes the path or the query, then      *)
(* queries PostgreSQL and answers.                                         *)
(***************************************************************************)
\* The identifiers a client can ask for: the empty one, one that no
\* transaction has, and those the clock can have given out.
LookupIds == {NoId} \cup (ClockStart - 1 .. ClockStart + MaxClock)

LookupUsers == {"USER002", "NEWUSER", "NOBODY"}

\* ?limit=: absent (or not a number), or a number.
Limits == {[given |-> FALSE, value |-> 0], [given |-> TRUE, value |-> 1],
           [given |-> TRUE, value |-> -1]}

\* ?status=: absent, or a status.
Statuses == {"", "OPEN", "RESOLVED"}

Queries ==
  {[get |-> id] : id \in LookupIds}
    \cup {[risk |-> u] : u \in LookupUsers}
    \cup {[status |-> st, limit |-> l] : st \in Statuses, l \in Limits}

\* The request reaches its handler.
ReadReceive(h, q, label) ==
  /\ hpc[h] = "idle"
  /\ nreq < MaxRequests
  /\ nreq' = nreq + 1
  /\ q \in Queries
  /\ hreq' = [hreq EXCEPT ![h] = q]
  /\ hpc' = [hpc EXCEPT ![h] = label]
  /\ UNCHANGED <<now, env, store, redis, kafka, htx, hscore, out, carried, cvars,
                 ndeliver, hist>>

\* GET /transactions/{id}
GetTransactionReceive(h) ==
  /\ hpc[h] = "idle"
  /\ \E id \in LookupIds : ReadReceive(h, [get |-> id], "getTx")

\* The columns getTransactionHandler selects and writes.
TransactionBody(id) ==
  [txid |-> id, user |-> transactions[id].user,
   amount |-> transactions[id].amount, mrisk |-> transactions[id].mrisk,
   score |-> transactions[id].score, isFraud |-> transactions[id].isFraud]

\* getTransactionHandler: 400 on an empty identifier, 404 when Scan finds
\* no row, else the row.
GetTransactionReply(h) ==
  /\ hpc[h] = "getTx"
  /\ LET id == hreq[h].get
     IN Reply(h, IF id = NoId THEN [status |-> 400, err |-> "missing id"]
                 ELSE IF id \notin DOMAIN transactions
                 THEN [status |-> 404, err |-> "Transaction not found"]
                 ELSE [status |-> 200, body |-> TransactionBody(id)])
  /\ UNCHANGED <<now, env, store, redis, kafka, cvars, ndeliver, hist>>

\* GET /users/{id}/risk-score
UserRiskReceive(h) ==
  /\ hpc[h] = "idle"
  /\ \E u \in LookupUsers : ReadReceive(h, [risk |-> u], "userRisk")

\* An unknown user answered with the default risk.
UserRiskAnswerDefault(u) ==
  [status |-> 200, body |-> [user |-> u, risk |-> getUserRiskScore(u)]]

\* userRiskHandler: 404 when Scan finds no row, else the stored risk.
UserRiskAnswer(u) ==
  IF u \in DOMAIN users
  THEN [status |-> 200, body |-> [user |-> u, risk |-> users[u]]]
  ELSE [status |-> 404, err |-> "User not found"]

UserRiskReply(h) ==
  /\ hpc[h] = "userRisk"
  /\ Reply(h, UserRiskAnswer(hreq[h].risk))
  /\ UNCHANGED <<now, env, store, redis, kafka, cvars, ndeliver, hist>>

\* GET /alerts?status=&limit=
AlertsReceive(h) ==
  /\ hpc[h] = "idle"
  /\ \E st \in Statuses, l \in Limits :
       ReadReceive(h, [status |-> st, limit |-> l], "alerts")

\* status := q.Get("status"), "OPEN" when empty.
StatusOf(q) == IF q.status = "" THEN "OPEN" ELSE q.status

\* limit := 100, replaced when Atoi accepts the parameter.
LimitOf(q) == IF q.limit.given THEN q.limit.value ELSE DefaultLimit

Matching(st) == {a \in DOMAIN alerts : a.status = st}

\* created_at of a row, to the second: the seconds of its identifier.
CreatedAt(a) == a.alert_id[1]

Occurrences(s, a) == Cardinality({i \in DOMAIN s : s[i] = a})

\* What SELECT ... WHERE status = st ORDER BY created_at DESC LIMIT lim can
\* return: the newest lim matching rows, newest first.
Listings(st, lim) ==
  LET total == CountRows(alerts, Matching(st))
      n == IF lim < total THEN lim ELSE total
  IN { s \in [1 .. n -> Matching(st)] :
         /\ \A i, j \in 1 .. n : i < j => CreatedAt(s[i]) >= CreatedAt(s[j])
         /\ \A a \in Matching(st) :
              /\ Occurrences(s, a) <= alerts[a]
              /\ Occurrences(s, a) < alerts[a] =>
                   \A i \in 1 .. n : CreatedAt(s[i]) >= CreatedAt(a) }

\* alertsHandler: the query succeeded; every row is scanned and written.
AlertsReply(h) ==
  /\ hpc[h] = "alerts"
  /\ LimitOf(hreq[h]) >= 0
  /\ \E s \in Listings(StatusOf(hreq[h]), LimitOf(hreq[h])) :
       Reply(h, [status |-> 200, body |-> s])
  /\ UNCHANGED <<now, env, store, redis, kafka, cvars, ndeliver, hist>>

\* pg.Query returned an error: 500.  PostgreSQL rejects a negative LIMIT,
\* and a fraud_alerts table created by the DDL has no alert_id column, which
\* the statement selects.
AlertsFail(h) ==
  /\ hpc[h] = "alerts"
  /\ Reply(h, [status |-> 500, err |-> "query"])
  /\ UNCHANGED <<now, env, store, redis, kafka, cvars, ndeliver, hist>>

Reads(h) ==
  \/ GetTransactionReceive(h)
  \/ GetTransactionReply(h)
  \/ UserRiskReceive(h)
  \/ UserRiskReply(h)
  \/ AlertsReceive(h)
  \/ AlertsReply(h)
  \/ AlertsFail(h)

\* The API alone: every endpoint of the mux, one request at a time.
NextApi ==
  \/ IntakeLocal("h1")
  \/ BatchReceive("h1")
  \/ BatchRespond("h1")
  \/ Reads("h1")
  \/ Tick
  \/ ExpireResponse

SpecApi == InitLocal /\ [][NextApi]_vars

\* The API with USE_ML_GRPC on, clients that send no identifier, and one
\* request served at a time.
InitScorer ==
  /\ useGRPC = TRUE
  /\ resubmits = FALSE
  /\ Idle(FreshWorld, ClockStart, 0)

IntakeScorer(h) ==
  \/ Replay(h)
  \/ ScoreGRPC(h)
  \/ ScoreFallback(h)
  \/ EnsureUser(h)
  \/ EnsureUserFail(h)
  \/ StoreTransaction(h)
  \/ StoreTransactionFail(h)
  \/ SendToKafka(h)
  \/ SendToKafkaFail(h)
  \/ Respond(h)

NextScorer ==
  \/ IntakeScorer("h1")
  \/ Tick
  \/ ExpireResponse

SpecScorer == InitScorer /\ [][NextScorer]_vars

\* The processors alone, one per partition, after the API has served
\* MaxEvents requests whose cached responses have expired.
InitFeedback ==
  /\ useGRPC = FALSE
  /\ resubmits = FALSE
  /\ \E reqs \in [1 .. MaxEvents -> Requests],
        routes \in [1 .. MaxEvents -> Partitions] :
       Idle(ServeAll(FreshWorld, ClockStart, reqs, routes),
            ClockStart + MaxEvents - 1, MaxEvents)

NextFeedback ==
  \/ \E c \in Consumers : Feedback(c)
  \/ Tick
  \/ ExpireRecent

SpecFeedback == InitFeedback /\ [][NextFeedback]_vars

\* Two flagged payments of one user, their events on different partitions.
RacingRequest == [user |-> "USER002", amount |-> 6000, mrisk |-> 90, device |-> "d1"]

InitRace ==
  /\ useGRPC = FALSE
  /\ resubmits = FALSE
  /\ Idle(ServeAll(FreshWorld, ClockStart, <<RacingRequest, RacingRequest>>,
                   <<"c1", "c2">>),
          ClockStart + 1, 2)

NextRace ==
  \/ \E c \in Consumers : Feedback(c)
  \/ ExpireRecent

SpecRace == InitRace /\ [][NextRace]_vars

(***************************************************************************)
(* Two flagged transactions with identifiers of more than ShortIdLen       *)
(* digits, one clock reading apart, their events on any partitions.        *)
(***************************************************************************)
\* The first clock reading that has more digits than shortID keeps.
LateClock == 10 ^ ShortIdLen

InitAlertIds ==
  /\ useGRPC = FALSE
  /\ resubmits = FALSE
  /\ \E routes \in [1 .. 2 -> Partitions] :
       Idle(ServeAll(FreshWorld, LateClock, <<RacingRequest, RacingRequest>>,
                     routes),
            LateClock + 1, 2)

SpecAlertIds == InitAlertIds /\ [][NextRace]_vars

\* A user whose recency list is full from earlier runs, and one more request.
InitRecent ==
  /\ useGRPC = FALSE
  /\ resubmits = FALSE
  /\ \E r \in Requests, route \in Partitions :
       Idle(ServeOne(Past(RecentKeep), ClockStart, r, route), ClockStart, 1)

SpecRecent == InitRecent /\ [][NextFeedback]_vars

(***************************************************************************)
(* The consumer loop under errors: one consumer, a partition that holds a  *)
(* payload that cannot be decoded among the decision events, and reads     *)
(* that fail.                                                              *)
(***************************************************************************)
\* reader.ReadMessage returned an error: log, time.Sleep(time.Second).
ReadError(c) ==
  /\ cpc[c] = "idle"
  /\ CGoto(c, "backoff")
  /\ UNCHANGED <<now, env, store, redis, kafka, hvars, calert, ndeliver, hist>>

\* continue: the loop is back at reader.ReadMessage.
ReadRetry(c) ==
  /\ cpc[c] = "backoff"
  /\ CGoto(c, "idle")
  /\ UNCHANGED <<now, env, store, redis, kafka, hvars, calert, ndeliver, hist>>

\* The decode error ends the consumer instead of the iteration.
DecodeErrorFatal(c) ==
  /\ cpc[c] = "idle"
  /\ offset[c] < Len(topic[c])
  /\ ndeliver < MaxDeliveries
  /\ ~Decodable(topic[c][offset[c] + 1])
  /\ ndeliver' = ndeliver + 1
  /\ offset' = [offset EXCEPT ![c] = @ + 1]
  /\ CGoto(c, "stopped")
  /\ UNCHANGED <<now, env, store, redis, topic, alertTopic, hvars, calert, hist>>

\* The message was read (its offset is committed by the read) and
\* json.Unmarshal failed: log, continue.
DecodeError(c) ==
  /\ cpc[c] = "idle"
  /\ offset[c] < Len(topic[c])
  /\ ndeliver < MaxDeliveries
  /\ ~Decodable(topic[c][offset[c] + 1])
  /\ ndeliver' = ndeliver + 1
  /\ offset' = [offset EXCEPT ![c] = @ + 1]
  /\ UNCHANGED <<now, env, store, redis, topic, alertTopic, hvars, cvars, hist>>

InsertAt(s, k, x) == SubSeq(s, 1, k) \o <<x>> \o SubSeq(s, k + 1, Len(s))

\* The decision events of MaxEvents served requests on consumer c1's
\* partition, and one undecodable payload somewhere among them.
InitPoison ==
  /\ useGRPC = FALSE
  /\ resubmits = FALSE
  /\ \E reqs \in [1 .. MaxEvents -> Requests], k \in 0 .. MaxEvents :
       LET w == ServeAll(FreshWorld, ClockStart, reqs,
                         [i \in 1 .. MaxEvents |-> "c1"])
       IN Idle([w EXCEPT !.topic["c1"] = InsertAt(@, k, Poison)],
               ClockStart + MaxEvents - 1, MaxEvents)

NextPoison ==
  \/ Feedback("c1")
  \/ ReadError("c1")
  \/ ReadRetry("c1")
  \/ DecodeError("c1")
  \/ Tick
  \/ ExpireRecent

SpecPoison == InitPoison /\ [][NextPoison]_vars

(***************************************************************************)
(* Enrichment: one consumer, and on its partition every decision event     *)
(* twice, each time with or without a device identifier, as the event      *)
(* type TransactionMessage admits.                                         *)
(***************************************************************************)
Devices == {"none", "d1"}

WithDevice(e, d) ==
  IF d = "none" THEN e
  ELSE [txid |-> e.txid, user |-> e.user, amount |-> e.amount,
        score |-> e.score, isFraud |-> e.isFraud, device |-> d]

RECURSIVE Enriched(_, _, _)
Enriched(events, da, db) ==
  IF events = <<>> THEN <<>>
  ELSE <<WithDevice(Head(events), da), WithDevice(Head(events), db)>>
       \o Enriched(Tail(events), da, db)

InitMetadata ==
  /\ useGRPC = FALSE
  /\ resubmits = FALSE
  /\ \E reqs \in [1 .. MaxEvents -> Requests], da \in Devices, db \in Devices :
       LET w == ServeAll(FreshWorld, ClockStart, reqs,
                         [i \in 1 .. MaxEvents |-> "c1"])
       IN Idle([w EXCEPT !.topic["c1"] = Enriched(@, da, db)],
               ClockStart + MaxEvents - 1, MaxEvents)

NextMetadata ==
  \/ Feedback("c1")
  \/ Tick
  \/ ExpireRecent

SpecMetadata == InitMetadata /\ [][NextMetadata]_vars

(***************************************************************************)
(* The alerts endpoint beside one consumer that makes the alerts.          *)
(***************************************************************************)
InitAlerts ==
  /\ useGRPC = FALSE
  /\ resubmits = FALSE
  /\ \E reqs \in [1 .. MaxEvents -> Requests] :
       Idle(ServeAll(FreshWorld, ClockStart, reqs,
                     [i \in 1 .. MaxEvents |-> "c1"]),
            ClockStart + MaxEvents - 1, MaxEvents)

NextAlerts ==
  \/ Feedback("c1")
  \/ AlertsReceive("h1")
  \/ AlertsReply("h1")
  \/ AlertsFail("h1")
  \/ Tick
  \/ ExpireRecent

SpecAlerts == InitAlerts /\ [][NextAlerts]_vars

\* Stored features the scoring step can find: risk scores of the users
\* table, and amounts of a user's one earlier payment (0: no earlier payment).
StoredRisks == {0, 30, 50, 70, 80, 100}
PastAmounts == {0, 5, 1000, 6000}

WithRisk(w, u, risk) ==
  [w EXCEPT !.users = Put(@, u, risk),
            !.riskBase = Put(@, u, risk),
            !.riskLog = Put(@, u, Empty)]

\* User u's earlier payment, served at clock t, its event not published.
WithPast(w, t, u, amount) ==
  IF amount = 0 THEN w
  ELSE ServeOne(w, t, [user |-> u, amount |-> amount, mrisk |-> 10,
                       device |-> "none"], "lost")

\* The scoring step alone, on every request and every stored feature.
InitFeatures ==
  /\ useGRPC = FALSE
  /\ resubmits = FALSE
  /\ \E r2 \in StoredRisks, a2 \in PastAmounts :
       \/ Idle(WithPast(WithRisk(FreshWorld, "USER002", r2), 1, "USER002", a2),
               ClockStart, 0)
       \/ \E rn \in StoredRisks, an \in PastAmounts :
            Idle(WithPast(WithRisk(
                   WithPast(WithRisk(FreshWorld, "USER002", r2), 1, "USER002", a2),
                   "NEWUSER", rn), 2, "NEWUSER", an),
                 ClockStart, 0)

NextFeatures == ScoreLocal("h1")

SpecFeatures == InitFeatures /\ [][NextFeatures]_vars

(***************************************************************************)
(* Properties.                                                             *)
(***************************************************************************)
ScoreInRange(fraudScore) == fraudScore >= 0 /\ fraudScore <= MaxScore

\* C1: every decision returned, and every transaction row persisted, has a
\* fraud score within [0,1] and a fraud flag that is true exactly when the
\* score is above 0.7.
C1_ScoreBoundedAndFlagged ==
  /\ out.status = 200 =>
       /\ ScoreInRange(out.body.score)
       /\ out.body.isFraud <=> (out.body.score > FraudThreshold)
  /\ \A t \in DOMAIN transactions :
       /\ ScoreInRange(transactions[t].score)
       /\ transactions[t].isFraud <=> (transactions[t].score > FraudThreshold)

\* C2: a request that carries a transaction identifier whose response is in
\* the cache gets exactly that cached response, and is not processed as a new
\* transaction: no handler goes on to insert a row or publish an event, and
\* the tables, the topic and the cache are as before.
C2_ResubmitIsReplayed ==
  [][ (nreq' = nreq + 1 /\ carried' \in DOMAIN cache) =>
        /\ out' = [status |-> 200, body |-> cache[carried'], replay |-> TRUE]
        /\ UNCHANGED <<transactions, topic, cache, hpc>>
    ]_vars

\* C3: no two requests ever obtain the same transaction identifier, and no
\* request fails on a duplicate transaction key.
C3_IdentifiersUnique ==
  /\ \A h1, h2 \in Handlers :
       (h1 # h2 /\ hpc[h1] # "idle" /\ hpc[h2] # "idle") => htx[h1] # htx[h2]
  /\ ~(out.status = 500 /\ out.err = "duplicate_key")

\* C4: every transaction row has a user row; a request that has reached the
\* transaction insert has its user row; a user row the API created has risk
\* 0.5.
C4_TransactionHasUser ==
  /\ \A t \in DOMAIN transactions : transactions[t].user \in DOMAIN users
  /\ \A h \in Handlers :
       hpc[h] \in {"store", "send", "reply"} => hreq[h].user \in DOMAIN users
  /\ \A u \in DOMAIN users \ DOMAIN SeedUsers : users[u] = DefaultRisk

C4_UnknownUserStored ==
  \E t \in DOMAIN transactions :
    /\ transactions[t].user \notin DOMAIN SeedUsers
    /\ transactions[t].user \in DOMAIN users

DropRow(table, row) ==
  IF table[row] > 1 THEN [table EXCEPT ![row] = @ - 1] ELSE Del(table, row)

\* The risk scores that applying the logged adjustments one after the other,
\* in some order, can give.
RECURSIVE SerialResults(_, _)
SerialResults(risk, log) ==
  IF DOMAIN log = {} THEN {risk}
  ELSE UNION { SerialResults(ClampRisk(risk + e.adj), DropRow(log, e)) :
               e \in DOMAIN log }

\* C6: when no risk update of a user is in progress, the stored risk is what
\* applying all the adjustments made for that user, one after the other in
\* some order, gives: no adjustment is lost.
C6_NoLostUpdate ==
  \A u \in DOMAIN users :
    (\A c \in Consumers : ~(cpc[c] = "updWrite" /\ cmsg[c].user = u)) =>
      users[u] \in SerialResults(riskBase[u], riskLog[u])

\* C7: updating the risk for an event whose adjustment was already applied
\* leaves the user's stored risk score unchanged.
C7_RedeliveryNotCounted ==
  [][ \A c \in Consumers :
        ( /\ cpc[c] = "updWrite" /\ cpc'[c] = "updCache"
          /\ cmsg[c].user \in DOMAIN riskLog
          /\ \E e \in DOMAIN riskLog[cmsg[c].user] : e.txid = cmsg[c].txid )
        => users' = users
    ]_vars

\* Every published event has been delivered and no processor is at work.
Quiescent ==
  /\ \A c \in Consumers : cpc[c] = "idle"
  /\ \A p \in Partitions : offset[p] = Len(topic[p])

HasOpenAlert(t) == \E a \in DOMAIN alerts : a.txid = t /\ a.status = "OPEN"

\* C8: once every event has been delivered and handled, every transaction
\* flagged as fraud has an OPEN alert: a failure or a crash never skips it.
C8_FlaggedIsAlerted ==
  Quiescent =>
    \A t \in DOMAIN transactions : transactions[t].isFraud => HasOpenAlert(t)

AlertsOf(t) == CountRows(alerts, {a \in DOMAIN alerts : a.txid = t})

IsPrefix(a, b) == Len(a) <= Len(b) /\ a = SubSeq(b, 1, Len(a))

\* C10: a user's recency list never holds more than 10 identifiers, and it
\* changes only by putting the identifier being processed at its head or by
\* dropping identifiers from its tail.
C10_RecencyBounded ==
  /\ [](\A u \in DOMAIN recent : Len(recent[u]) <= RecentKeep)
  /\ [][ \A u \in DOMAIN recent' :
           \/ IsPrefix(recent'[u], RecentOf(u))
           \/ Tail(recent'[u]) = RecentOf(u)
       ]_vars

\* C11: a request leaves ensureUserExists or storeTransaction for the end
\* of the handler only with a 500 response, and that step stores no row,
\* publishes no event and caches no response; a request that is about to
\* publish its event or cache its response has its transaction row stored.
C11_StorageFailureStops ==
  /\ [](\A h \in Handlers :
          hpc[h] \in {"send", "reply"} =>
            /\ htx[h] \in DOMAIN transactions
            /\ transactions[htx[h]] = TransactionRow(hreq[h], hscore[h].score))
  /\ [][ \A h \in Handlers :
           (hpc[h] \in {"ensure", "store"} /\ hpc'[h] = "idle") =>
             /\ out'.status = 500
             /\ UNCHANGED <<transactions, topic, cache>>
       ]_vars

C11_StorageFailed ==
  /\ out.status = 500 /\ out.err = "storage"
  /\ transactions = Empty /\ cache = Empty
  /\ \A p \in Partitions : topic[p] = <<>>

\* The decision event of transaction t is on the topic.
Published(t) ==
  \E p \in Partitions : \E i \in 1 .. Len(topic[p]) : topic[p][i].txid = t

C13_ScorerFailureFallsBack ==
  [][ \A h \in Handlers :
        (useGRPC /\ hpc[h] = "idle" /\ nreq' = nreq + 1 /\ hpc'[h] # "idle") =>
          /\ hpc'[h] = "ensure"
          /\ out' = out
          /\ hscore'[h] \in GrpcReplies \cup {LocalScore(hreq'[h])}
    ]_vars

C13_FellBack ==
  /\ useGRPC
  /\ \E h \in Handlers :
       /\ hpc[h] = "ensure"
       /\ hscore[h] \notin GrpcReplies
       /\ hscore[h].conf = PlaceholderConfidence

\* The input constraints: a user identifier, an amount of at least 0, a
\* merchant risk within [0,1].
ValidInput(r) ==
  /\ r.user # ""
  /\ r.amount >= 0
  /\ r.mrisk >= 0 /\ r.mrisk <= MaxRisk

\* C14: a request that violates the input constraints has no side effect:
\* no handler creates a user row for it, and no transaction row and no
\* decision event carries its fields.
C14_InvalidInputRejected ==
  /\ \A h \in Handlers : hpc[h] \in {"store", "send", "reply"} => ValidInput(hreq[h])
  /\ \A t \in DOMAIN transactions : ValidInput(transactions[t])

\* The features of request r as the handler's lookups give them.
UserRiskOf(r) == getUserRiskScore(r.user)
RatioOf(r) == getAmountToHistoryRatio(r.user, r.amount)

\* 0.3 + (0.3 if amount > 5000) + 0.2 x merchant risk + 0.1 x user risk
\* + (0.2 if ratio > 5), clamped to [0,1], in ten-thousandths.
ClampedSum(amount, merchantRisk, userRisk, ratio) ==
  LET sum == 3000 + (IF amount > 5000 THEN 3000 ELSE 0)
             + 20 * merchantRisk + 10 * userRisk
             + (IF ratio.num > 5 * ratio.den THEN 2000 ELSE 0)
  IN IF sum < 0 THEN 0 ELSE IF sum > 10000 THEN 10000 ELSE sum

\* C15: the score the local heuristic gives a request is the clamped sum
\* of the claim, its confidence is 0.8, and the two scenarios give 0.83
\* (fraud) and 0.35 (no fraud).
C15_HeuristicScore ==
  /\ \A h \in Handlers :
       hpc[h] = "ensure" =>
         /\ hscore[h].score = ClampedSum(hreq[h].amount, hreq[h].mrisk,
                                         UserRiskOf(hreq[h]), RatioOf(hreq[h]))
         /\ hscore[h].conf = 8000
  /\ LET a == getFraudScorePlaceholder(6000, 90, 50, [num |-> 1, den |-> 1])
         b == getFraudScorePlaceholder(50, 10, 30, [num |-> 1, den |-> 2])
     IN /\ a.score = 8300 /\ IsFraudScore(a.score)
        /\ b.score = 3500 /\ ~IsFraudScore(b.score)

\* C16: the risk factors of the local heuristic are high_amount exactly
\* when amount > 5000, unusual_amount_pattern exactly when ratio > 5,
\* high_merchant_risk exactly when merchant risk > 0.8 and high_user_risk
\* exactly when user risk > 0.7, and nothing else; the two scenarios give
\* {high_amount, high_merchant_risk} and the empty set.
C16_RiskFactorsNamed ==
  /\ \A h \in Handlers :
       hpc[h] = "ensure" =>
         LET r == hreq[h]
             rfs == hscore[h].rfs
         IN /\ ("high_amount" \in rfs) <=> (r.amount > 5000)
            /\ ("unusual_amount_pattern" \in rfs) <=>
                 (RatioOf(r).num > 5 * RatioOf(r).den)
            /\ ("high_merchant_risk" \in rfs) <=> (r.mrisk > 80)
            /\ ("high_user_risk" \in rfs) <=> (UserRiskOf(r) > 70)
            /\ rfs \subseteq {"high_amount", "unusual_amount_pattern",
                              "high_merchant_risk", "high_user_risk"}
  /\ getFraudScorePlaceholder(6000, 90, 50, [num |-> 1, den |-> 1]).rfs
       = {"high_amount", "high_merchant_risk"}
  /\ getFraudScorePlaceholder(50, 10, 30, [num |-> 1, den |-> 2]).rfs = {}

C16_AllFactors ==
  \E h \in Handlers :
    /\ hpc[h] = "ensure"
    /\ hscore[h].rfs = {"high_amount", "unusual_amount_pattern",
                        "high_merchant_risk", "high_user_risk"}

\* The lasting effects of processing event m: its risk adjustment applied,
\* its two feature rows written, and its alert if it is flagged.  (The
\* recency entry expires by its TTL and is left out.)
Applied(m) ==
  /\ m.user \in DOMAIN riskLog
  /\ \E e \in DOMAIN riskLog[m.user] : e.txid = m.txid
  /\ [user |-> m.user, name |-> "transaction_amount", value |-> m.amount]
       \in DOMAIN features
  /\ [user |-> m.user, name |-> "fraud_score", value |-> m.score]
       \in DOMAIN features
  /\ m.isFraud => HasOpenAlert(m.txid)

\* C17: an event whose consumption is acknowledged (the committed offset is
\* past it) while its consumer is not at work has had every sub-step succeed.
C17_AckedAfterSuccess ==
  \A c \in Consumers :
    cpc[c] = "idle" =>
      \A i \in 1 .. offset[c] : Applied(topic[c][i])

\* C18: no error stops the consumer.  A read that takes an undecodable
\* message leaves every store and cache unchanged, commits its offset (it is
\* not read again by the loop) and leaves the consumer at the head of its
\* loop; a failed read is followed only by another read attempt; a read that
\* takes a well-formed message starts processing that message; and no
\* undecodable message is ever processed.
C18_ConsumerSurvivesErrors ==
  /\ [](\A c \in Consumers :
         /\ cpc[c] # "stopped"
         /\ cmsg[c] # NoMsg => Decodable(cmsg[c]))
  /\ [][\A c \in Consumers :
         /\ (cpc[c] = "idle" /\ offset'[c] = offset[c] + 1)
              => IF Decodable(topic[c][offset[c] + 1])
                 THEN /\ cpc'[c] = "updWrite"
                      /\ cmsg'[c] = topic[c][offset[c] + 1]
                 ELSE /\ cpc'[c] = "idle"
                      /\ UNCHANGED <<store, redis, topic, alertTopic, hist>>
         /\ (cpc[c] = "backoff" /\ cpc'[c] # "backoff") => cpc'[c] = "idle"]_vars

\* An undecodable message was skipped and a well-formed message behind it
\* on the same partition has been processed in full.
C18_ProcessedAfterPoison ==
  \E c \in Consumers :
    /\ cpc[c] = "idle"
    /\ \E i, j \in 1 .. offset[c] :
         /\ i < j
         /\ ~Decodable(topic[c][i])
         /\ Decodable(topic[c][j])
         /\ Applied(topic[c][j])

\* C19: the batch variant applies the single submit's logic to every item:
\* when the batch handler answers, the result of each item carries the
\* decision the single submit computes for that item, and the item's
\* transaction row, cached response and decision event exist.
C19_BatchEqualsSingle ==
  [][\A h \in Handlers :
       (hpc[h] = "batch" /\ hpc'[h] = "idle") =>
         LET items == hreq[h].batch
             res == out'.body.results
         IN /\ Len(res) = Len(items)
            /\ \A i \in 1 .. Len(items) :
                 LET sc == LocalScore(items[i])
                     id == res[i].txid
                 IN /\ res[i].score = sc.score
                    /\ res[i].isFraud = IsFraudScore(sc.score)
                    /\ res[i].conf = sc.conf
                    /\ res[i].rfs = sc.rfs
                    /\ id \in DOMAIN transactions'
                    /\ id \in DOMAIN cache'
                    /\ \E p \in Partitions : \E k \in 1 .. Len(topic'[p]) :
                         topic'[p][k].txid = id]_vars

\* The ratio as claimed: amount over the larger of the user's average past
\* amount and 100, as a fraction.
ClaimedRatio(r) ==
  LET ids == {t \in DOMAIN transactions : transactions[t].user = r.user}
      n == Cardinality(ids)
      sum == SumAmounts(transactions, ids)
  IN IF n > 0 /\ sum > DefaultBase * n
     THEN [num |-> r.amount * n, den |-> sum]
     ELSE [num |-> r.amount, den |-> DefaultBase]

\* C20: the features a request is scored with are the stored risk of its
\* user, or 0.5 when the user is unknown, and its amount divided by the
\* larger of the user's average past amount and 100.
C20_FeatureLookup ==
  \A h \in Handlers :
    hpc[h] = "ensure" =>
      LET r == hreq[h]
          risk == IF r.user \in DOMAIN users THEN users[r.user] ELSE 50
          ratio == ClaimedRatio(r)
      IN /\ UserRiskOf(r) = risk
         /\ RatioOf(r).num * ratio.den = ratio.num * RatioOf(r).den
         /\ hscore[h] = getFraudScorePlaceholder(r.amount, r.mrisk, risk, ratio)

\* The risk the claim gives an event: the value read, plus 0.1 if flagged,
\* plus 0.05 if score > 0.8, plus 0.03 if amount > 5000, minus 0.02 if not
\* flagged and score < 0.3, clamped to [0,1]; in hundredths.
ClaimedRisk(current, m) ==
  LET sum == current + (IF m.isFraud THEN 10 ELSE 0)
             + (IF m.score > 8000 THEN 5 ELSE 0)
             + (IF m.amount > 5000 THEN 3 ELSE 0)
             - (IF ~m.isFraud /\ m.score < 3000 THEN 2 ELSE 0)
  IN IF sum < 0 THEN 0 ELSE IF sum > 100 THEN 100 ELSE sum

\* C21: when updateUserRiskScore has run for an event, the user's stored
\* risk is the claimed function of the value it read and of the event, and
\* the user_risk cache key holds the same value.
C21_RiskPersisted ==
  [][\A c \in Consumers :
       (cpc[c] = "updCache" /\ cpc'[c] = "meta") =>
         LET m == cmsg[c]
         IN /\ riskCache'[m.user] = ClaimedRisk(ccur[c], m)
            /\ users'[m.user] = ClaimedRisk(ccur[c], m)]_vars

\* CRITICAL above 0.9, HIGH above 0.8 up to 0.9, MEDIUM otherwise.
ClaimedSeverity(score) ==
  IF score > 9000 THEN "CRITICAL" ELSE IF score > 8000 THEN "HIGH" ELSE "MEDIUM"

\* C22: when generateAlert has run its INSERT for a flagged event, an alert
\* row with status OPEN, the claimed severity, the event's transaction and
\* the identifier the alert event is about to carry exists; alert rows and
\* alert events exist only for flagged transactions.
C22_AlertForFlagged ==
  /\ \A c \in Consumers :
       cpc[c] = "alertPub" =>
         \E a \in DOMAIN alerts :
           /\ a.alert_id = calert[c]
           /\ a.txid = cmsg[c].txid
           /\ a.status = "OPEN"
           /\ a.severity = ClaimedSeverity(cmsg[c].score)
  /\ \A a \in DOMAIN alerts \cup DOMAIN alertTopic :
       a.txid \in DOMAIN transactions /\ transactions[a.txid].isFraud

C24_IntakeKeepsRisk ==
  [][/\ \A u \in DOMAIN users : u \in DOMAIN users' /\ users'[u] = users[u]
     /\ \A u \in DOMAIN users' \ DOMAIN users : users'[u] = 50]_vars

\* A submit for a seeded user whose risk is not 0.5 has passed
\* ensureUserExists, and a submit has inserted a user.
C24_EnsuredExistingUser ==
  /\ \E h \in Handlers :
       /\ hpc[h] = "store"
       /\ hreq[h].user = "USER002"
       /\ users["USER002"] = 70
  /\ "NEWUSER" \in DOMAIN users

FeatureCount(table, row) == IF row \in DOMAIN table THEN table[row] ELSE 0

C27_AlertsListed ==
  [][\A h \in Handlers :
       (hpc[h] = "alerts" /\ hpc'[h] = "idle") =>
         LET st == IF hreq[h].status = "" THEN "OPEN" ELSE hreq[h].status
             lim == IF hreq[h].limit.given THEN hreq[h].limit.value ELSE 100
             total == CountRows(alerts, {a \in DOMAIN alerts : a.status = st})
         IN /\ out'.status = 200
            /\ \A i \in DOMAIN out'.body : out'.body[i].status = st
            /\ Len(out'.body) <= lim
            /\ total <= lim => Len(out'.body) = total
            /\ \A i, j \in DOMAIN out'.body :
                 i < j => out'.body[i].alert_id[1] >= out'.body[j].alert_id[1]]_vars

OnTopic(t) ==
  \E p \in Partitions : \E i \in 1 .. Len(topic[p]) : topic[p][i].txid = t

C29_UserEventsInOrder ==
  \A p \in Partitions, q \in Partitions :
    \A i \in 1 .. Len(topic[p]), j \in 1 .. Len(topic[q]) :
      (/\ topic[p][i].user = topic[q][j].user
       /\ topic[p][i].txid < topic[q][j].txid
       /\ offset[q] >= j) => offset[p] >= i

\* C30: a submit that answers with a decision answers with the identifier
\* of a stored transaction row; the request that answers after its own
\* scoring has stored that row itself; and no step replaces or removes a
\* stored row.
C30_CreatedOnce ==
  /\ []((out.status = 200 /\ "body" \in DOMAIN out)
          => out.body.txid \in DOMAIN transactions)
  /\ [][/\ \A t \in DOMAIN transactions :
             t \in DOMAIN transactions' /\ transactions'[t] = transactions[t]
        /\ \A h \in Handlers :
             (hpc[h] = "reply" /\ hpc'[h] = "idle") =>
               /\ htx[h] \in DOMAIN transactions
               /\ transactions[htx[h]] = TransactionRow(hreq[h], hscore[h].score)]_vars

\* A second request was given the identifier of a stored row and stands
\* before its INSERT.
C30_SecondInsertPending ==
  \E h \in Handlers :
    /\ hpc[h] = "store"
    /\ htx[h] \in DOMAIN transactions
    /\ transactions[htx[h]].user # hreq[h].user

\* The requests a stored row can come from: those with its user, amount and
\* merchant risk.
RequestsOf(row) ==
  {r \in Requests :
     r.user = row.user /\ r.amount = row.amount /\ r.mrisk = row.mrisk}

\* C31: once storeMetadata has run for the decision event of a transaction,
\* the stored row carries the device identifier its request carried.
C31_DeviceStored ==
  \A c \in Consumers :
    (cpc[c] = "feature" /\ cmsg[c].txid \in DOMAIN transactions) =>
      \A r \in RequestsOf(transactions[cmsg[c].txid]) :
        transactions[cmsg[c].txid].device = r.device

\* C32: a key of the response cache is written by the request that holds
\* its identifier, when it answers, with the body it answers with, and only
\* when the key is absent; a value that is cached never changes; a key is
\* removed only by a step in which no request and no store acts (expiry);
\* and no two requests about to answer hold the same identifier.
C32_CacheWriteOnce ==
  /\ [](\A h1 \in Handlers, h2 \in Handlers :
          (h1 # h2 /\ hpc[h1] \in {"send", "reply"} /\ hpc[h2] \in {"send", "reply"})
            => htx[h1] # htx[h2])
  /\ [][/\ \A t \in DOMAIN cache \cap DOMAIN cache' : cache'[t] = cache[t]
        /\ \A t \in DOMAIN cache' \ DOMAIN cache :
             /\ \E h \in Handlers :
                  hpc[h] = "reply" /\ hpc'[h] = "idle" /\ htx[h] = t
             /\ out' = [status |-> 200, body |-> cache'[t], replay |-> FALSE]
        /\ \A h \in Handlers :
             (hpc[h] = "reply" /\ hpc'[h] = "idle") => htx[h] \notin DOMAIN cache
        /\ DOMAIN cache \ DOMAIN cache' # {} =>
             UNCHANGED <<hvars, store, kafka>>]_vars

\* A request that took a measurable time was answered, and its response is
\* cached as it was sent.
C32_CachedAsSent ==
  /\ out.status = 200
  /\ ~out.replay
  /\ out.body.ms > 0
  /\ out.body.txid \in DOMAIN cache
  /\ cache[out.body.txid] = out.body

C34_RiskCacheMatchesStore ==
  (\A c \in Consumers : cpc[c] \notin {"updWrite", "updCache"}) =>
    \A u \in DOMAIN riskCache : u \in DOMAIN users /\ riskCache[u] = users[u]

\* C35: every alert event on the fraud-alerts topic has an alert row with
\* its alert identifier and transaction.
C35_AlertEventHasRow ==
  \A e \in DOMAIN alertTopic :
    \E a \in DOMAIN alerts : a.alert_id = e.alert_id /\ a.txid = e.txid

\* C36: the alert rows of two different transactions have different alert
\* identifiers.
C36_AlertIdsUnique ==
  \A a \in DOMAIN alerts, b \in DOMAIN alerts :
    a.txid # b.txid => a.alert_id # b.alert_id

\* C37: a request that stands before ensureUserExists can always pass it,
\* whatever other requests have done; passing it adds the user with risk
\* 0.5 when the user has no row and changes nothing when the user has one.
C37_EnsureUserIdempotent ==
  /\ [](\A h \in Handlers :
          hpc[h] = "ensure" => ENABLED (EnsureUser(h) /\ hpc'[h] = "store"))
  /\ [][\A h \in Handlers :
          (hpc[h] = "ensure" /\ hpc'[h] = "store") =>
            /\ hreq[h].user \in DOMAIN users => users' = users
            /\ hreq[h].user \notin DOMAIN users =>
                 /\ DOMAIN users' = DOMAIN users \cup {hreq[h].user}
                 /\ users'[hreq[h].user] = 50
                 /\ \A u \in DOMAIN users : users'[u] = users[u]]_vars

\* Two concurrent requests for a user that had no row are both past
\* ensureUserExists, and the user has its one row with risk 0.5.
C37_BothPastEnsure ==
  /\ \A h \in Handlers :
       hpc[h] = "store" /\ hreq[h].user = "NEWUSER"
  /\ users["NEWUSER"] = 50

=============================================================================
